---- MODULE Spec2Model ----
(***************************************************************************)
(* A model of convert_ADPCM.py: the ADPCM nybble decoder (convert_packet), *)
(* the block streaming loop (convert_file), the WAV header validation and  *)
(* chunk scan (wav_find_data_chunk) and the driver with its backpatch      *)
(* (convert_linear16).  Files are sequences of bytes 0..255; a file        *)
(* position is the number of bytes before it.                              *)
(***************************************************************************)
EXTENDS Integers, Sequences, FiniteSets, TLC

VARIABLES
    file_in_data,    \* the bytes of the input file (never written)
    named_out,       \* TRUE: file_name_out given (real file), FALSE: StringIO
    in_pos,          \* position of file_in
    in_open,         \* file_in handle is open
    out_open,        \* file_out handle is open
    file_out,        \* the bytes of the output
    out_pos,         \* position of file_out
    pc,              \* where convert_linear16 is
    err,             \* the exception that ended the call, or "none"
    in_file_size,    \* wav_find_data_chunk local
    next_chunk_pos,  \* wav_find_data_chunk local
    data_in_len,     \* declared length of the data chunk
    block_align,     \* blockAlign field of the input
    bytes_read,      \* convert_file local
    bytes_written,   \* convert_file local
    this_packet,     \* convert_file local: the last read
    data_in,         \* convert_packet argument: the block body
    data_in_index,   \* convert_packet local
    input_buffer,    \* convert_packet local: the byte being split
    buffer_step,     \* convert_packet local
    valpred,         \* convert_packet: predictor
    index,           \* convert_packet: step index
    data_out,        \* convert_packet: output bytearray
    i                \* convert_packet: loop variable (offset in data_out)

vars == << file_in_data, named_out, in_pos, in_open, out_open, file_out,
           out_pos, pc, err, in_file_size, next_chunk_pos, data_in_len,
           block_align, bytes_read, bytes_written, this_packet, data_in,
           data_in_index, input_buffer, buffer_step, valpred, index,
           data_out, i >>

-----------------------------------------------------------------------------
(* Bounds of the model. *)

\* longest block body (bytes after the 4-byte block header) that is enumerated
MaxBody == 2
\* most blocks in an enumerated data payload
MaxBlocks == 2
\* longest payload of a chunk that is not the data chunk
MaxChunkLen == 2

-----------------------------------------------------------------------------
(* Constant tables and clamp. *)

index_table ==
    << -1, -1, -1, -1, 2, 4, 6, 8,
       -1, -1, -1, -1, 2, 4, 6, 8 >>

step_size_table ==
    << 7, 8, 9, 10, 11, 12, 13, 14, 16, 17,
       19, 21, 23, 25, 28, 31, 34, 37, 41, 45,
       50, 55, 60, 66, 73, 80, 88, 97, 107, 118,
       130, 143, 157, 173, 190, 209, 230, 253, 279, 307,
       337, 371, 408, 449, 494, 544, 598, 658, 724, 796,
       876, 963, 1060, 1166, 1282, 1411, 1552, 1707, 1878, 2066,
       2272, 2499, 2749, 3024, 3327, 3660, 4026, 4428, 4871, 5358,
       5894, 6484, 7132, 7845, 8630, 9493, 10442, 11487, 12635, 13899,
       15289, 16818, 18500, 20350, 22385, 24623, 27086, 29794, 32767 >>

clamp(value, lower_limit, upper_limit) ==
    IF value < lower_limit THEN lower_limit
    ELSE IF value > upper_limit THEN upper_limit
    ELSE value

-----------------------------------------------------------------------------
(* Byte strings: slices, struct.pack and struct.unpack, file reads/writes. *)

Min(a, b) == IF a < b THEN a ELSE b
Max(a, b) == IF a > b THEN a ELSE b

\* Python s[a:b] for 0 <= a <= b
Slice(s, a, b) == SubSeq(s, a + 1, Min(b, Len(s)))

\* Python s[a:]
SliceFrom(s, a) == SubSeq(s, a + 1, Len(s))

RECURSIVE LEValue(_)
\* the unsigned little-endian value of a byte string
LEValue(s) == IF s = << >> THEN 0 ELSE s[1] + 256 * LEValue(Tail(s))

\* struct.unpack raises struct.error unless the string has exactly n bytes
CanUnpack(s, n) == Len(s) = n

\* struct.unpack('<H', s)[0]
UnpackH(s) == LEValue(s)

\* struct.unpack('<h', s)[0]
UnpackSignedH(s) == IF LEValue(s) >= 32768 THEN LEValue(s) - 65536 ELSE LEValue(s)

\* struct.unpack('<L', s)[0], as the pair of its 16-bit halves (so that the
\* whole 32-bit range is representable)
UnpackLHalves(s) == [lo |-> LEValue(SubSeq(s, 1, 2)), hi |-> LEValue(SubSeq(s, 3, 4))]

\* struct.unpack('<L', s)[0] as an integer
UnpackL(s) == LEValue(s)

\* struct.pack('<H', n), 0 <= n < 65536
PackH(n) == << n % 256, n \div 256 >>

\* struct.pack('<h', v) raises struct.error outside the int16 range
CanPackSignedH(v) == v >= -32768 /\ v <= 32767

\* struct.pack('<h', v)
PackSignedH(v) == PackH((v + 65536) % 65536)

\* struct.pack('<L', n), 0 <= n < 2^31 here
PackL(n) == PackH(n % 65536) \o PackH(n \div 65536)

\* 2 * sample_rate on the halves; hi may leave the 16-bit range
Times2(w) == [lo |-> (2 * w.lo) % 65536, hi |-> 2 * w.hi + (2 * w.lo) \div 65536]

\* struct.pack('<L', ...) raises struct.error at 2^32 and above
CanPackLHalves(w) == w.hi < 65536

PackLHalves(w) == PackH(w.lo) \o PackH(w.hi)

\* file.read(n) at position pos
FileRead(f, pos, n) == Slice(f, pos, pos + n)

\* file.write(bytes) at position pos: overwrites, and extends past the end
WriteAt(buf, pos, bytes) ==
    [k \in 1..Max(Len(buf), pos + Len(bytes)) |->
        IF k > pos /\ k <= pos + Len(bytes) THEN bytes[k - pos]
        ELSE IF k <= Len(buf) THEN buf[k] ELSE 0]

\* bytearray slice assignment b[a:c] = bytes (a <= c)
SetSlice(b, a, c, bytes) == Slice(b, 0, a) \o bytes \o SliceFrom(b, Min(c, Len(b)))

-----------------------------------------------------------------------------
(* The input files that are enumerated. *)

RIFF == << 82, 73, 70, 70 >>
WAVE == << 87, 65, 86, 69 >>
FMT  == << 102, 109, 116, 32 >>
DATA == << 100, 97, 116, 97 >>
LIST == << 76, 73, 83, 84 >>
\* a wrong signature
JUNK == << 74, 85, 78, 75 >>

\* sample rates 0, 8000, 2^31 - 1, 2^31 and 2^32 - 1, little-endian
SampleRateBytes ==
    { << 0, 0, 0, 0 >>, << 64, 31, 0, 0 >>, << 255, 255, 255, 127 >>,
      << 0, 0, 0, 128 >>, << 255, 255, 255, 255 >> }

\* the first 36 bytes of a WAV file (RIFF length and byte rate are arbitrary)
FrontHeaders(riff, wave, fmt, fmtlen, af, nc, sr, ba) ==
    riff \o << 9, 9, 9, 9 >> \o wave \o fmt \o PackL(fmtlen) \o PackH(af)
        \o PackH(nc) \o sr \o << 1, 2, 3, 4 >> \o PackH(ba) \o PackH(4)

\* a mono MS ADPCM header with sample rate 8000
GoodHeaders(fmtlen, ba) ==
    FrontHeaders(RIFF, WAVE, FMT, fmtlen, 2, 1, << 64, 31, 0, 0 >>, ba)

Chunk(tag, declared, payload) == tag \o PackL(declared) \o payload

\* one ADPCM block: first sample, step index, reserved byte, body
Block(sample, idx, body) == PackSignedH(sample) \o << idx, 0 >> \o body

SeedSamples == { 0, -1, 32767, -32768 }
SeedIndexes == { 0, 44, 88, 89, 255 }
\* 0x00, 0x77, 0x87, 0xFF: the nybbles 0, 7, 8 and 15 in both positions
BodyBytes == { 0, 119, 135, 255 }

Bodies == UNION { [1..n -> BodyBytes] : n \in 0..MaxBody }

Zeros(n) == [k \in 1..n |-> 0]

RECURSIVE Repeat(_, _)
Repeat(s, n) == IF n = 0 THEN << >> ELSE s \o Repeat(s, n - 1)

Prefixes(f, from) == { SubSeq(f, 1, n) : n \in Min(from, Len(f))..Len(f) }

\* header fields varied, one whole block of data
HeaderFiles ==
    { FrontHeaders(sig[1], sig[2], sig[3], 16, af, nc, sr, 5)
          \o Chunk(DATA, 5, Block(0, 0, << 119 >>)) :
        sig \in { << RIFF, WAVE, FMT >>, << JUNK, WAVE, FMT >>,
                  << RIFF, JUNK, FMT >>, << RIFF, WAVE, JUNK >> },
        af \in { 1, 2, 17 }, nc \in { 1, 2 }, sr \in SampleRateBytes }

\* a file cut anywhere in its front headers
ShortFiles ==
    Prefixes(GoodHeaders(16, 5) \o Chunk(DATA, 5, Block(0, 0, << 119 >>)), 0)

\* one whole block, every seed state and every body
BlockFiles ==
    { GoodHeaders(16, 4 + Len(body))
          \o Chunk(DATA, 4 + Len(body), Block(s, x, body)) :
        s \in SeedSamples, x \in SeedIndexes, body \in Bodies }

\* the block that fills a payload of block size ba
FillBlock(ba) == Slice(Block(32767, 80, << 119, 135, 255 >> \o Zeros(MaxBody)), 0, ba)

\* a data chunk of declared length d that holds d bytes, whole blocks of size
\* ba and then the front of one more; another chunk behind it or not; the file
\* cut anywhere behind the data chunk's header
StreamFilesOf(ba, n) ==
    UNION { Prefixes(GoodHeaders(16, ba)
                       \o Chunk(DATA, d, Slice(Repeat(FillBlock(ba), n + 1), 0, d))
                       \o after, 44) :
        d \in { 0, 1, ba, n * ba, n * ba + 1 },
        after \in { << >>, Chunk(LIST, 0, << >>) } }

StreamFiles ==
    UNION { StreamFilesOf(ba, n) : ba \in { 0, 2, 5, 4 + MaxBody }, n \in 1..MaxBlocks }

\* chunks in front of the data chunk (or of no data chunk), cut anywhere
\* behind the front headers
SkipChunks ==
    { << >> } \cup { Chunk(LIST, l, Zeros(l)) : l \in 0..MaxChunkLen }
      \cup { Chunk(LIST, l, Zeros(l)) \o Chunk(JUNK, m, Zeros(m)) :
               l \in 0..MaxChunkLen, m \in { 0, MaxChunkLen + 30 } }

ScanFiles ==
    UNION { Prefixes(GoodHeaders(16 + e, 4) \o Zeros(e) \o skip \o tail, 34) :
        e \in { 0, 4 }, skip \in SkipChunks,
        tail \in { << >>, Chunk(DATA, 4, Block(0, 0, << >>)) } }

InputFiles == HeaderFiles \cup ShortFiles \cup BlockFiles \cup StreamFiles \cup ScanFiles

-----------------------------------------------------------------------------
(* convert_packet, one nybble at a time. *)

\* the 4-bit delta of this iteration: the high nybble of the buffered byte, or
\* the low nybble of the next byte
FetchDelta(step, buffer, data, at) ==
    IF ~step THEN (buffer \div 16) % 16 ELSE data[at + 1] % 16

\* step_size_table[index] raises IndexError past the table's end
CanLookup(x) == x >= 0 /\ x < Len(step_size_table)

NextIndex(x, delta) == clamp(x + index_table[delta + 1], 0, 88)

Difference(step_size, delta) ==
    LET magnitude == delta % 8
    IN  (step_size \div 8)
          + (IF magnitude % 2 = 1 THEN step_size \div 4 ELSE 0)
          + (IF (magnitude \div 2) % 2 = 1 THEN step_size \div 2 ELSE 0)
          + (IF (magnitude \div 4) % 2 = 1 THEN step_size ELSE 0)

NextValpred(v, step_size, delta) ==
    LET sign == (delta \div 8) % 2
    IN  clamp(IF sign = 1 THEN v - Difference(step_size, delta)
              ELSE v + Difference(step_size, delta), -32768, 32767)

\* size * 2 * data_in_len + 2
DataOutLen(data) == 2 * 2 * Len(data) + 2

-----------------------------------------------------------------------------
(* wav_find_data_chunk: the rewritten front headers and the scan's advance. *)

SignaturesOk(front_headers) ==
    /\ Slice(front_headers, 0, 4) = RIFF
    /\ Slice(front_headers, 8, 12) = WAVE
    /\ Slice(front_headers, 12, 16) = FMT

FieldsUnpack(front_headers) ==
    /\ CanUnpack(Slice(front_headers, 20, 22), 2)
    /\ CanUnpack(Slice(front_headers, 22, 24), 2)
    /\ CanUnpack(Slice(front_headers, 24, 28), 4)
    /\ CanUnpack(Slice(front_headers, 32, 34), 2)

FormatOk(front_headers) ==
    /\ UnpackH(Slice(front_headers, 22, 24)) = 1
    /\ UnpackH(Slice(front_headers, 20, 22)) \in { 2, 17 }

ByteRate(front_headers) == Times2(UnpackLHalves(Slice(front_headers, 24, 28)))

\* NewHeaders without the rewrite of the fmt chunk size
NewHeadersKeepFmtSize(front_headers) ==
    LET h1 == SetSlice(front_headers, 20, 22, << 1, 0 >>)
        h2 == SetSlice(h1, 32, 34, << 2, 0 >>)
        h3 == SetSlice(h2, 34, 36, << 16, 0 >>)
    IN  SetSlice(h3, 28, 32, PackLHalves(ByteRate(front_headers)))

NewHeaders(front_headers) ==
    LET h1 == SetSlice(front_headers, 20, 22, << 1, 0 >>)
        h2 == SetSlice(h1, 32, 34, << 2, 0 >>)
        h3 == SetSlice(h2, 34, 36, << 16, 0 >>)
        h4 == SetSlice(h3, 16, 20, PackL(16))
    IN  SetSlice(h4, 28, 32, PackLHalves(ByteRate(front_headers)))

\* ScanAdvance that forgets the 8 bytes of the chunk header
ScanAdvanceNoHeader(pos, chunk_length) == pos + chunk_length

ScanAdvance(pos, chunk_length) == pos + 8 + chunk_length

-----------------------------------------------------------------------------
(* The state machine. *)

Init ==
    /\ file_in_data \in InputFiles
    /\ named_out \in BOOLEAN
    /\ in_pos = 0
    /\ in_open = FALSE
    /\ out_open = FALSE
    /\ file_out = << >>
    /\ out_pos = 0
    /\ pc = "entry"
    /\ err = "none"
    /\ in_file_size = 0
    /\ next_chunk_pos = 0
    /\ data_in_len = 0
    /\ block_align = 0
    /\ bytes_read = 0
    /\ bytes_written = 0
    /\ this_packet = << >>
    /\ data_in = << >>
    /\ data_in_index = 0
    /\ input_buffer = 0
    /\ buffer_step = TRUE
    /\ valpred = 0
    /\ index = 0
    /\ data_out = << >>
    /\ i = 0

packet_vars == << data_in, data_in_index, input_buffer, buffer_step, valpred,
                  index, data_out, i >>
stream_vars == << bytes_read, bytes_written, this_packet >>
scan_vars == << in_file_size, next_chunk_pos, data_in_len, block_align >>
out_vars == << file_out, out_pos >>
handle_vars == << in_open, out_open >>

\* an exception leaves the call: nothing below convert_linear16 catches it
Raise(kind) == pc' = "error" /\ err' = kind

\* convert_linear16, lines 210-217: both handles are acquired
OpenFiles ==
    /\ pc = "entry"
    /\ in_open' = TRUE
    /\ out_open' = TRUE
    /\ pc' = "headers"
    /\ UNCHANGED << file_in_data, named_out, in_pos, out_vars, err, scan_vars,
                    stream_vars, packet_vars >>

\* wav_find_data_chunk up to the scan loop
ReadHeaders ==
    /\ pc = "headers"
    /\ LET front_headers == FileRead(file_in_data, in_pos, 36)
       IN  IF ~SignaturesOk(front_headers)
           THEN /\ Raise("NotValidWav")
                /\ in_pos' = in_pos + Len(front_headers)
                /\ UNCHANGED << out_vars, scan_vars >>
           ELSE IF ~FieldsUnpack(front_headers)
           THEN /\ Raise("struct.error")
                /\ in_pos' = in_pos + Len(front_headers)
                /\ UNCHANGED << out_vars, scan_vars >>
           ELSE IF ~FormatOk(front_headers)
           THEN /\ Raise("Unsupported")
                /\ in_pos' = in_pos + Len(front_headers)
                /\ UNCHANGED << out_vars, scan_vars >>
           ELSE IF ~CanPackLHalves(ByteRate(front_headers))
           THEN /\ Raise("struct.error")
                /\ in_pos' = in_pos + Len(front_headers)
                /\ UNCHANGED << out_vars, scan_vars >>
           ELSE /\ file_out' = WriteAt(file_out, out_pos, NewHeaders(front_headers))
                /\ out_pos' = out_pos + Len(NewHeaders(front_headers))
                /\ block_align' = UnpackH(Slice(front_headers, 32, 34))
                /\ in_pos' = Len(file_in_data)
                /\ in_file_size' = Len(file_in_data)
                /\ next_chunk_pos' = 12
                /\ pc' = "scan"
                /\ UNCHANGED << err, data_in_len >>
    /\ UNCHANGED << file_in_data, named_out, handle_vars, stream_vars, packet_vars >>

\* one iteration of the scan loop
ScanChunk ==
    /\ pc = "scan"
    /\ LET chunk_header == FileRead(file_in_data, next_chunk_pos, 8)
           chunk_type == Slice(chunk_header, 0, 4)
           chunk_length == UnpackL(Slice(chunk_header, 4, 8))
       IN  /\ in_pos' = next_chunk_pos + Len(chunk_header)
           /\ IF ~CanUnpack(Slice(chunk_header, 4, 8), 4)
              THEN /\ Raise("struct.error")
                   /\ UNCHANGED << out_vars, next_chunk_pos, data_in_len >>
              ELSE IF chunk_type = DATA
              THEN /\ file_out' = WriteAt(file_out, out_pos, chunk_header)
                   /\ out_pos' = out_pos + Len(chunk_header)
                   /\ data_in_len' = chunk_length
                   /\ pc' = "convert_file"
                   /\ UNCHANGED << err, next_chunk_pos >>
              ELSE /\ next_chunk_pos' = ScanAdvance(next_chunk_pos, chunk_length)
                   /\ IF next_chunk_pos' >= in_file_size
                      THEN Raise("NotValidWav")
                      ELSE UNCHANGED << pc, err >>
                   /\ UNCHANGED << out_vars, data_in_len >>
    /\ UNCHANGED << file_in_data, named_out, handle_vars, in_file_size, block_align,
                    stream_vars, packet_vars >>

\* convert_file, lines 128-130
EnterConvertFile ==
    /\ pc = "convert_file"
    /\ IF data_in_len > 0 /\ block_align > 0
       THEN /\ bytes_read' = 0
            /\ bytes_written' = 0
            /\ pc' = "loop"
            /\ UNCHANGED err
       ELSE /\ Raise("AssertionError")
            /\ UNCHANGED << bytes_read, bytes_written >>
    /\ UNCHANGED << file_in_data, named_out, in_pos, handle_vars, out_vars, scan_vars,
                    this_packet, packet_vars >>

\* convert_file, lines 132-142, and the entry of convert_packet, lines 60-74
ReadPacket ==
    /\ pc = "loop"
    /\ bytes_read < data_in_len
    /\ LET packet == FileRead(file_in_data, in_pos, block_align)
           first_sample == UnpackSignedH(Slice(packet, 0, 2))
           packet_data == SliceFrom(packet, 4)
       IN  /\ this_packet' = packet
           /\ in_pos' = in_pos + Len(packet)
           /\ bytes_read' = bytes_read + Len(packet)
           /\ IF ~CanUnpack(Slice(packet, 0, 2), 2)
              THEN Raise("struct.error") /\ UNCHANGED packet_vars
              ELSE IF Len(packet) < 3
              THEN Raise("IndexError") /\ UNCHANGED packet_vars
              ELSE /\ data_in' = packet_data
                   /\ valpred' = first_sample
                   /\ index' = packet[3]
                   /\ data_in_index' = 0
                   /\ buffer_step' = TRUE
                   /\ data_out' = SetSlice(Zeros(DataOutLen(packet_data)), 0, 2,
                                           PackSignedH(first_sample))
                   /\ i' = 2
                   /\ pc' = "decode"
                   /\ UNCHANGED << err, input_buffer >>
    /\ UNCHANGED << file_in_data, named_out, handle_vars, out_vars, scan_vars,
                    bytes_written >>

\* one iteration of convert_packet's loop, lines 75-118
DecodeSample ==
    /\ pc = "decode"
    /\ i < Len(data_out)
    /\ LET delta == FetchDelta(buffer_step, input_buffer, data_in, data_in_index)
           step_size == step_size_table[index + 1]
       IN  /\ IF buffer_step
              THEN /\ input_buffer' = data_in[data_in_index + 1]
                   /\ data_in_index' = data_in_index + 1
              ELSE UNCHANGED << input_buffer, data_in_index >>
           /\ buffer_step' = ~buffer_step
           /\ IF ~CanLookup(index)
              THEN /\ Raise("IndexError")
                   /\ UNCHANGED << index, valpred, data_out, i >>
              ELSE /\ index' = NextIndex(index, delta)
                   /\ valpred' = NextValpred(valpred, step_size, delta)
                   /\ IF ~CanPackSignedH(valpred')
                      THEN /\ Raise("struct.error")
                           /\ UNCHANGED << data_out, i >>
                      ELSE /\ data_out' = SetSlice(data_out, i, i + 2, PackSignedH(valpred'))
                           /\ i' = i + 2
                           /\ UNCHANGED << pc, err >>
    /\ UNCHANGED << file_in_data, named_out, in_pos, handle_vars, out_vars, scan_vars,
                    stream_vars, data_in >>

\* WritePacket that counts samples instead of bytes
WritePacketCountSamples ==
    /\ pc = "decode"
    /\ i >= Len(data_out)
    /\ file_out' = WriteAt(file_out, out_pos, data_out)
    /\ out_pos' = out_pos + Len(data_out)
    /\ bytes_written' = bytes_written + Len(data_out) \div 2
    /\ pc' = "loop"
    /\ UNCHANGED << file_in_data, named_out, in_pos, handle_vars, err, scan_vars,
                    bytes_read, this_packet, packet_vars >>

\* convert_packet returns, and convert_file writes the block, lines 120, 144-147
WritePacket ==
    /\ pc = "decode"
    /\ i >= Len(data_out)
    /\ file_out' = WriteAt(file_out, out_pos, data_out)
    /\ out_pos' = out_pos + Len(data_out)
    /\ bytes_written' = bytes_written + Len(data_out)
    /\ pc' = "loop"
    /\ UNCHANGED << file_in_data, named_out, in_pos, handle_vars, err, scan_vars,
                    bytes_read, this_packet, packet_vars >>

\* the streaming loop ends, line 132 and 149
ReturnConvertFile ==
    /\ pc = "loop"
    /\ ~(bytes_read < data_in_len)
    /\ pc' = "patch_data"
    /\ UNCHANGED << file_in_data, named_out, in_pos, handle_vars, out_vars, err,
                    scan_vars, stream_vars, packet_vars >>

\* PatchDataLength without the seek to offset 40
PatchDataLengthNoSeek ==
    /\ pc = "patch_data"
    /\ file_out' = WriteAt(file_out, out_pos, PackL(bytes_written))
    /\ out_pos' = out_pos + 4
    /\ pc' = "patch_riff"
    /\ UNCHANGED << file_in_data, named_out, in_pos, handle_vars, err, scan_vars,
                    stream_vars, packet_vars >>

\* convert_linear16, lines 222-224
PatchDataLength ==
    /\ pc = "patch_data"
    /\ file_out' = WriteAt(file_out, 40, PackL(bytes_written))
    /\ out_pos' = 40 + 4
    /\ pc' = "patch_riff"
    /\ UNCHANGED << file_in_data, named_out, in_pos, handle_vars, err, scan_vars,
                    stream_vars, packet_vars >>

\* convert_linear16, lines 226-230
PatchRiffLength ==
    /\ pc = "patch_riff"
    /\ LET out_file_size == Len(file_out)
       IN  IF out_file_size - 8 < 0
           THEN Raise("struct.error") /\ UNCHANGED out_vars
           ELSE /\ file_out' = WriteAt(file_out, 4, PackL(out_file_size - 8))
                /\ out_pos' = 4 + 4
                /\ pc' = "close"
                /\ UNCHANGED err
    /\ UNCHANGED << file_in_data, named_out, in_pos, handle_vars, scan_vars,
                    stream_vars, packet_vars >>

\* convert_linear16, lines 232-237
CloseFiles ==
    /\ pc = "close"
    /\ in_open' = FALSE
    /\ out_open' = IF named_out THEN FALSE ELSE out_open
    /\ pc' = "done"
    /\ UNCHANGED << file_in_data, named_out, in_pos, out_vars, err, scan_vars,
                    stream_vars, packet_vars >>

Next ==
    \/ OpenFiles
    \/ ReadHeaders
    \/ ScanChunk
    \/ EnterConvertFile
    \/ ReadPacket
    \/ DecodeSample
    \/ WritePacket
    \/ ReturnConvertFile
    \/ PatchDataLength
    \/ PatchRiffLength
    \/ CloseFiles

Spec == Init /\ [][Next]_vars

Stopped == pc \in { "done", "error" }

-----------------------------------------------------------------------------
(* Properties. *)

Int16 == -32768..32767

\* the output's front headers and data chunk header are written
HeadersWritten == Len(file_out) >= 36

\* convert_file has returned
Streamed == pc \in { "patch_data", "patch_riff", "close", "done" }

\* C1: while a block is decoded, stepIndex is within [0,88] at each StepTable
\* lookup and after each update, for any step index byte 0..255 of the block
\* header, and the predictor is an int16.
C1_RangeInvariant ==
    /\ (pc = "decode" /\ i < Len(data_out)) => index \in 0..88
    /\ (pc = "decode" /\ i > 2) => index \in 0..88
    /\ pc = "decode" => valpred \in Int16

\* C2: a block body of k bytes, under every seed state its header can give,
\* is decoded to the end: convert_packet returns, with 4k+2 bytes whose first
\* sample is the header's.
C2_SampleCountLaw ==
    [][pc = "decode" =>
          /\ pc' # "error"
          /\ pc' = "loop" =>
                /\ bytes_written' = bytes_written + 4 * Len(data_in) + 2
                /\ Slice(data_out, 0, 2) = Slice(this_packet, 0, 2)]_vars

\* C3: once the front headers are written, and through the backpatch, the
\* output has audioFormat 1, blockAlign 2, bitsPerSample 16, fmt chunk size 16,
\* the input's sampleRate, and a byteRate that is exactly twice that sampleRate.
C3_HeaderRewriteLaw ==
    HeadersWritten =>
        /\ Slice(file_out, 20, 22) = << 1, 0 >>
        /\ Slice(file_out, 32, 34) = << 2, 0 >>
        /\ Slice(file_out, 34, 36) = << 16, 0 >>
        /\ Slice(file_out, 16, 20) = << 16, 0, 0, 0 >>
        /\ Slice(file_out, 24, 28) = Slice(file_in_data, 24, 28)
        /\ LEValue(Slice(file_out, 28, 30))
             = (2 * LEValue(Slice(file_out, 24, 26))) % 65536
        /\ LEValue(Slice(file_out, 30, 32))
             = 2 * LEValue(Slice(file_out, 26, 28))
                 + (2 * LEValue(Slice(file_out, 24, 26))) \div 65536

\* C3 witness: a finished transcode of an input with sampleRate 2^31 - 1
C3_Witness ==
    /\ pc = "done"
    /\ Slice(file_in_data, 24, 28) = << 255, 255, 255, 127 >>
    /\ Slice(file_out, 28, 32) = << 254, 255, 255, 255 >>

\* C4: after the streaming decode the output is 44 bytes and the PCM bytes, and
\* stays so; the field at 40 is then patched to the PCM byte count while the
\* field at 4 still holds what the input had, and only then the field at 4 is
\* patched to the output size minus 8.
C4_BackpatchCorrect ==
    /\ Streamed => Len(file_out) - 44 = bytes_written
    /\ pc = "patch_data" => Slice(file_out, 40, 44) = PackL(data_in_len)
    /\ pc = "patch_riff" => Slice(file_out, 4, 8) = Slice(file_in_data, 4, 8)
    /\ pc \in { "patch_riff", "close", "done" } =>
           LEValue(Slice(file_out, 40, 44)) = Len(file_out) - 44
    /\ pc \in { "close", "done" } =>
           LEValue(Slice(file_out, 4, 8)) = Len(file_out) - 8

\* C4 witness: a finished transcode of two blocks whose patched data length is
\* not the declared one
C4_Witness ==
    /\ pc = "done"
    /\ bytes_read = 2 * block_align
    /\ LEValue(Slice(file_out, 40, 44)) = bytes_written
    /\ bytes_written # data_in_len

\* C5 as stated: a finished output is 36 bytes and the PCM bytes.
C5_OutputSize36 == pc = "done" => Len(file_out) = 36 + bytes_written

\* C5 amended: a finished output is 44 bytes (the 36 front bytes and the
\* 8-byte data chunk header) and the PCM bytes.
C5_OutputSize44 == pc = "done" => Len(file_out) = 8 + 36 + bytes_written

\* C5 witness: a finished transcode with at least two blocks written
C5_Witness == pc = "done" /\ bytes_written >= 12 /\ Len(file_out) = 44 + bytes_written

\* C6: a scan that meets no "data" tag fails with 'Not a valid WAV file' and
\* with nothing else, and never reads a chunk header at or past the end of
\* the file.
C6_ScanFailsWithFormatError ==
    [][pc = "scan" =>
          /\ next_chunk_pos < in_file_size
          /\ (/\ Slice(FileRead(file_in_data, next_chunk_pos, 8), 0, 4) # DATA
              /\ pc' = "error") => err' = "NotValidWav"]_vars

\* C7: once a short final read (at least 4 bytes, fewer than blockAlign, the
\* input ending before the declared data length) is decoded and written, the
\* streaming loop exits to the backpatch.
C7_ShortFinalBlockFinishes ==
    [][(/\ pc = "loop"
        /\ Len(this_packet) >= 4
        /\ Len(this_packet) < block_align
        /\ bytes_read < data_in_len) => pc' = "patch_data"]_vars

\* C8: when convert_linear16 has returned or raised, both handles are closed.
C8_HandlesReleased == Stopped => (~in_open /\ ~out_open)

\* C9: the streaming decode never has read more than the declared data length
\* (stated of the reads that are decoded: the ones that reach the output).
C9_NoOverRead == (pc \in { "decode", "loop" } \/ Streamed) => bytes_read <= data_in_len

\* steps left, at most: a natural number that every step of the call lowers
Rank ==
    LET left == Len(file_in_data) - in_pos
        size == Len(file_in_data)
    IN  CASE pc = "entry" -> 8 + 5 * size
          [] pc = "headers" -> 7 + 5 * size
          [] pc = "scan" -> 6 + 4 * size + (in_file_size - next_chunk_pos)
          [] pc = "convert_file" -> 5 + 4 * left
          [] pc = "loop" -> 4 + 4 * left
          [] pc = "decode" -> 4 + 4 * left + (Len(data_out) - i) \div 2 + 1
          [] pc = "patch_data" -> 3
          [] pc = "patch_riff" -> 2
          [] pc = "close" -> 1
          [] OTHER -> 0

\* C10: every call stops, returning or raising: each step lowers a natural
\* number, so no run is endless; the scan position grows by at least 8 per
\* iteration that stays in the scan, and every read that is decoded grows
\* bytes_read.
C10_Termination ==
    /\ [][(Rank \in Nat) /\ (Rank' \in Nat) /\ (Rank' < Rank)]_vars
    /\ [][(pc = "scan" /\ pc' = "scan") => next_chunk_pos' >= next_chunk_pos + 8]_vars
    /\ [][(pc = "loop" /\ pc' = "decode") => bytes_read' > bytes_read]_vars

\* C10 witness: an empty read at the end of the input ended the streaming loop
C10_Witness ==
    /\ pc = "error"
    /\ this_packet = << >>
    /\ bytes_read > 0
    /\ bytes_read < data_in_len

====
